---- MODULE Spec2Model ----
(***************************************************************************)
(* Verification model of the snuba replacement-consistency engine          *)
(* (snuba/replacer.py), the sampling-rate query processor                  *)
(* (snuba/query/processors/sampling_rate.py) and the discover storage      *)
(* selection exercised by tests/datasets/test_discover.py.                 *)
(*                                                                         *)
(* Time is the integer clock `now` (time.time() and the Redis clock are    *)
(* taken to be one clock).  Redis is modelled command by command; a        *)
(* pipeline (MULTI/EXEC) is one atomic step.                               *)
(***************************************************************************)
EXTENDS Integers, Sequences, FiniteSets, TLC

(* ------------------------------- bounds -------------------------------- *)

\* settings.REPLACER_KEY_TTL scaled down to clock ticks (an integer, as in
\* the default settings, so that int(REPLACER_KEY_TTL) is the same number).
REPLACER_KEY_TTL == 2

\* The clock stops at MaxTime.
MaxTime == 3

\* Project ids and group ids that occur.  10 and 2 order differently as
\* decimal strings and as integers.
Projects == {1, 2}
GroupIds == {2, 10}

\* float('inf') of the score ranges
Inf == 1000

\* "no expiry" / "no such key" marker of the key-value store
NoKey == -1

\* The collections of project ids handed to get_projects_query_flags:
\* lists with and without duplicates, in any order.
ProjectIdLists ==
    { <<>>, <<1>>, <<2>>, <<1, 2>>, <<2, 1, 2>> }

\* The (project_id, group_ids) arguments of set_project_exclude_groups that
\* occur: group 10 is excluded in both projects.
ExcludeCalls ==
    { <<1, {2}>>, <<1, {10}>>, <<1, {2, 10}>>, <<2, {10}>> }

\* The longest batch handed to flush_batch
MaxBatch == 2

\* EXCLUDE_GROUPS / NEEDS_FINAL: the two kinds of query_time_flags
EXCLUDE_GROUPS == "EXCLUDE_GROUPS"
NEEDS_FINAL == "NEEDS_FINAL"

\* The units of work (count query, insert query, query_args, query_time_flags)
\* the replacement processor hands out; only query_time_flags is kept, the
\* query templates being opaque text.
Units ==
    { [flag_type |-> NEEDS_FINAL, project_id |-> 1, group_ids |-> {}],
      [flag_type |-> EXCLUDE_GROUPS, project_id |-> 2, group_ids |-> {2, 10}] }

\* Python's None where a unit is expected
NoneUnit == [flag_type |-> "None", project_id |-> 0, group_ids |-> {}]

\* What the count query can return: no row to replace, or some
Counts == {0, 1}

\* Replacement messages [version, type, payload]
Versions == {1, 2, 3}
MessageTypes ==
    { "start_delete_groups", "start_merge", "start_unmerge", "start_delete_tag",
      "end_delete_groups", "end_merge", "end_unmerge", "end_delete_tag",
      "delete_groups" }
Payloads == { "event_a", "event_b" }

RECURSIVE SeqsUpTo(_, _)
SeqsUpTo(S, n) ==
    IF n = 0 THEN { <<>> }
    ELSE LET shorter == SeqsUpTo(S, n - 1)
         IN  shorter \cup { Append(b, u) : b \in { x \in shorter : Len(x) = n - 1 }, u \in S }

Batches == SeqsUpTo(Units, MaxBatch)

\* Python's None where a sample rate is expected; sample rates are counted
\* in tenths (1 is 0.1, 10 is 1.0)
NoneSample == -1

\* settings.TURBO_SAMPLE_RATE, in tenths
TURBO_SAMPLE_RATE == 1

\* The sample a query is built with: absent, 0, the turbo rate, 0.5
Samples == { NoneSample, 0, 1, 5 }

\* SamplingMode
AUTO_DEPRECATED == "AUTO_DEPRECATED"
SamplingModes == { AUTO_DEPRECATED, "AUTO", "NONE" }

\* Query bodies: conditions (column, operator, literal), selected columns and
\* aggregations (function, column)
ConditionLists ==
    { <<>>,
      << <<"type", "=", "transaction">> >>,
      << <<"type", "!=", "transaction">> >>,
      << <<"duration", "=", "0">> >>,
      << <<"group_id", "=", "1">> >>,
      << <<"type", "=", "transaction">>, <<"group_id", "=", "1">> >>,
      << <<"type", "!=", "transaction">>, <<"trace_id", "=", "a">> >> }
SelectedColumnLists ==
    { <<>>, <<"event_id">>, <<"group_id">>, <<"trace_id">>, <<"group_id", "trace_id">> }
AggregationLists ==
    { <<>>, << <<"max", "duration", "max_duration">> >>, << <<"count", "", "count">> >> }

(* --------------------------- pure functions ---------------------------- *)

\* str(group_id): the decimal digits of a non-negative integer
RECURSIVE str(_)
str(n) == IF n < 10 THEN <<n>> ELSE str(n \div 10) \o <<n % 10>>

\* int(member): the integer a digit string denotes
RECURSIVE int(_)
int(s) == IF Len(s) = 0 THEN 0
          ELSE 10 * int(SubSeq(s, 1, Len(s) - 1)) + s[Len(s)]

\* lexicographic order of two member strings (Redis orders equal scores
\* by member bytes)
RECURSIVE LexLess(_, _)
LexLess(a, b) ==
    IF Len(a) = 0 THEN Len(b) > 0
    ELSE IF Len(b) = 0 THEN FALSE
    ELSE IF a[1] # b[1] THEN a[1] < b[1]
    ELSE LexLess(Tail(a), Tail(b))

\* sorted(S) for a set of integers: ascending
RECURSIVE sorted(_)
sorted(S) ==
    IF S = {} THEN <<>>
    ELSE LET m == CHOOSE x \in S : \A y \in S : x <= y
         IN  <<m>> \o sorted(S \ {m})

\* sum(lists, []): concatenation of a sequence of lists
RECURSIVE sum(_)
sum(ls) == IF Len(ls) = 0 THEN <<>> ELSE ls[1] \o sum(Tail(ls))

Range(s) == { s[i] : i \in 1..Len(s) }

\* All orders in which a set can be iterated
Orderings(S) ==
    { s \in [1..Cardinality(S) -> S] : \A i, j \in 1..Cardinality(S) : i # j => s[i] # s[j] }

EmptyZSet == [m \in {} |-> 0]

(* ------------------------- the key-value store ------------------------- *)
(* db.zsets[p]   the sorted set "project_exclude_groups:<p>": member -> score *)
(* db.zexpire[p] its expiry time, NoKey when it has none                   *)
(* db.flag[p]    expiry time of the key "project_needs_final:<p>" (whose   *)
(*               value is True), NoKey when the key was never set          *)

\* A key with expiry time e is gone once the clock has passed e.
Expired(e, t) == e # NoKey /\ t > e

\* The sorted set as a command sees it at time t
ZView(db, p, t) == IF Expired(db.zexpire[p], t) THEN EmptyZSet ELSE db.zsets[p]

ZExpireView(db, p, t) ==
    IF Expired(db.zexpire[p], t) \/ DOMAIN db.zsets[p] = {} THEN NoKey ELSE db.zexpire[p]

\* ZADD key score member [score member ...]
ZADD(db, p, members, score, t) ==
    LET old == ZView(db, p, t)
        new == [m \in DOMAIN old \cup members |-> IF m \in members THEN score ELSE old[m]]
    IN  [db EXCEPT !.zsets[p] = new, !.zexpire[p] = ZExpireView(db, p, t)]

\* ZREMRANGEBYSCORE key min max (both ends inclusive); an emptied key is deleted
ZREMRANGEBYSCORE(db, p, min, max, t) ==
    LET old  == ZView(db, p, t)
        keep == { m \in DOMAIN old : ~(min <= old[m] /\ old[m] <= max) }
    IN  [db EXCEPT !.zsets[p] = [m \in keep |-> old[m]],
                   !.zexpire[p] = IF keep = {} THEN NoKey ELSE ZExpireView(db, p, t)]

\* EXPIRE key seconds: no effect on a key that does not exist
EXPIRE(db, p, seconds, t) ==
    IF DOMAIN ZView(db, p, t) = {} THEN db
    ELSE [db EXCEPT !.zsets[p] = ZView(db, p, t), !.zexpire[p] = t + seconds]

\* The members of zs in descending order of (score, member)
RECURSIVE RevByScore(_, _)
RevByScore(zs, ms) ==
    IF ms = {} THEN <<>>
    ELSE LET top == CHOOSE m \in ms : \A o \in ms :
                        \/ o = m
                        \/ zs[o] < zs[m]
                        \/ (zs[o] = zs[m] /\ LexLess(o, m))
         IN  <<top>> \o RevByScore(zs, ms \ {top})

\* ZREVRANGEBYSCORE key max min: the reply
ZREVRANGEBYSCORE(db, p, max, min, t) ==
    LET zs == ZView(db, p, t)
    IN  RevByScore(zs, { m \in DOMAIN zs : min <= zs[m] /\ zs[m] <= max })

\* SET key True EX seconds
SETEX(db, p, seconds, t) == [db EXCEPT !.flag[p] = t + seconds]

\* GET key: TRUE stands for the stored value "True", FALSE for the nil reply
GET(db, p, t) == db.flag[p] # NoKey /\ ~Expired(db.flag[p], t)

(* ------------------------------- state --------------------------------- *)

VARIABLES
    now,        \* time.time()
    redis,      \* redis_client: [zsets, zexpire, flag]
    written,    \* history: when each id / flag was last recorded, NoKey if never
    ret,        \* the last call to the state store and what it returned
    pc,         \* ReplacerWorker: where flush_batch stands
    batch,      \* the batch flush_batch was called with
    idx,        \* position in batch of the unit being handled (from 1)
    events,     \* the calls flush_batch has made so far, in order
    outcome,    \* the last process_message call: message, calls, result
    query,      \* Query: the body, the bound data source, the sample
    request_settings,   \* RequestSettings: turbo, sampling mode
    storage,    \* the storage select_storage returned, "None" before
    applied,    \* the query processors that have run on the query, in order
    expression, \* translation: the logical expression handed to the translator
    mappers,    \* translation: the TranslationMappers the translator runs with
    attempt,    \* the last attempt_map call: mapper, position, result
    translated, \* the last translation: result, and the result translated again
    callers     \* concurrent writers: each one's position, clock reading, call

store_vars == <<now, redis, written, ret>>
worker_vars == <<pc, batch, idx, events, outcome>>
query_vars == <<query, request_settings, storage, applied>>
translate_vars == <<expression, mappers, attempt, translated>>
vars == <<now, redis, written, ret, pc, batch, idx, events, outcome,
          query, request_settings, storage, applied,
          expression, mappers, attempt, translated, callers>>

NoOutcome ==
    [op |-> "none", message |-> <<0, "", "">>, processed |-> NoneUnit,
     calls |-> <<>>, raised |-> "none", returned |-> NoneUnit]

NoRet == [op |-> "none", project_ids |-> <<>>, needs_final |-> FALSE, exclude_groups |-> <<>>]

EmptyDb ==
    [zsets   |-> [p \in Projects |-> EmptyZSet],
     zexpire |-> [p \in Projects |-> NoKey],
     flag    |-> [p \in Projects |-> NoKey]]

NeverWritten ==
    [ids   |-> [p \in Projects |-> [g \in GroupIds |-> NoKey]],
     final |-> [p \in Projects |-> NoKey]]

\* a data source that is not there (None)
NoDataSource == [table |-> "None", supports_sample |-> FALSE]

\* Query(query_body, None)
NewQuery(conditions, selected_columns, aggregations, sample) ==
    [conditions |-> conditions, selected_columns |-> selected_columns,
     aggregations |-> aggregations, sample |-> sample, data_source |-> NoDataSource]

(* ----------------------------- expressions ------------------------------ *)
(* snuba.query.expressions: every node carries an optional alias.  Literal  *)
(* values are written as strings ("5" is the number 5), None is Python's    *)
(* None for a string, a value or a result.                                  *)

None == "None"

Column(alias, table_name, column_name) ==
    [kind |-> "Column", alias |-> alias, table_name |-> table_name,
     column_name |-> column_name]

Literal(alias, value) == [kind |-> "Literal", alias |-> alias, value |-> value]

FunctionCall(alias, function_name, parameters) ==
    [kind |-> "FunctionCall", alias |-> alias, function_name |-> function_name,
     parameters |-> parameters]

CurriedFunctionCall(alias, internal_function, parameters) ==
    [kind |-> "CurriedFunctionCall", alias |-> alias,
     internal_function |-> internal_function, parameters |-> parameters]

SubscriptableReference(alias, column, key) ==
    [kind |-> "SubscriptableReference", alias |-> alias, column |-> column,
     key |-> key]

\* attempt_map returned None: the mapper declines the node
Absent == [kind |-> "None"]

\* an exception left the translation (the assert of line 165)
Raised == [kind |-> "AssertionError"]

\* TranslationMappers(): no rule of any kind
EmptyMappers ==
    [columns |-> <<>>, functions |-> <<>>, curried_functions |-> <<>>,
     subscriptables |-> <<>>]

NoAttempt == [mapper |-> Absent, position |-> 0, result |-> Absent]
NoTranslated == [result |-> Absent, again |-> Absent]

\* the processes that write to the state store side by side
Workers == { "w1", "w2" }

\* a worker that has made no call yet: where its call stands, the clock
\* reading of the call, the call and its arguments, the calls made so far
IdleCaller ==
    [pc |-> "idle", now |-> 0, op |-> "none", project_id |-> 0, group_ids |-> {},
     calls |-> 0]

InitCallers == callers = [w \in Workers |-> IdleCaller]

InitTranslator ==
    /\ expression = Absent
    /\ mappers = EmptyMappers
    /\ attempt = NoAttempt
    /\ translated = NoTranslated

InitReplacer ==
    /\ now = 0
    /\ redis = EmptyDb
    /\ written = NeverWritten
    /\ ret = NoRet
    /\ pc = "idle"
    /\ batch = <<>>
    /\ idx = 0
    /\ events = <<>>
    /\ outcome = NoOutcome

Init ==
    /\ InitReplacer
    /\ query = NewQuery(<<>>, <<>>, <<>>, NoneSample)
    /\ request_settings = [turbo |-> FALSE, mode |-> "NONE"]
    /\ storage = "None"
    /\ applied = <<>>
    /\ InitTranslator
    /\ InitCallers

(* ------------------------ consistency state store ---------------------- *)

\* set_project_exclude_groups pruning up to now instead of now - TTL
set_project_exclude_groups_prune_now(db, project_id, group_ids, t) ==
    LET d1 == ZADD(db, project_id, { str(g) : g \in group_ids }, t, t)
        d2 == ZREMRANGEBYSCORE(d1, project_id, -1, t, t)
    IN  EXPIRE(d2, project_id, REPLACER_KEY_TTL, t)

\* set_project_exclude_groups(project_id, group_ids): the pipeline zadd,
\* zremrangebyscore, expire executed at time t
set_project_exclude_groups(db, project_id, group_ids, t) ==
    LET d1 == ZADD(db, project_id, { str(g) : g \in group_ids }, t, t)
        d2 == ZREMRANGEBYSCORE(d1, project_id, -1, t - REPLACER_KEY_TTL, t)
    IN  EXPIRE(d2, project_id, REPLACER_KEY_TTL, t)

\* set_project_needs_final without the expiry (ex=...)
set_project_needs_final_no_ex(db, project_id, t) ==
    SETEX(db, project_id, Inf, t)

\* set_project_needs_final(project_id)
set_project_needs_final(db, project_id, t) ==
    SETEX(db, project_id, REPLACER_KEY_TTL, t)

\* the pipeline of get_projects_query_flags pruning every score up to now
RECURSIVE TrimAll_up_to_now(_, _, _)
TrimAll_up_to_now(db, ps, t) ==
    IF Len(ps) = 0 THEN db
    ELSE TrimAll_up_to_now(ZREMRANGEBYSCORE(db, ps[1], -Inf, t, t), Tail(ps), t)

\* The store after the pipeline of get_projects_query_flags
RECURSIVE TrimAll(_, _, _)
TrimAll(db, ps, t) ==
    IF Len(ps) = 0 THEN db
    ELSE TrimAll(ZREMRANGEBYSCORE(db, ps[1], -Inf, t - REPLACER_KEY_TTL, t), Tail(ps), t)

\* results of the pipeline: the GET replies, then for every project the
\* zremrangebyscore reply (a count) followed by the zrevrangebyscore reply
RECURSIVE ZReplies(_, _, _)
ZReplies(db, ps, t) ==
    IF Len(ps) = 0 THEN <<>>
    ELSE LET d1 == ZREMRANGEBYSCORE(db, ps[1], -Inf, t - REPLACER_KEY_TTL, t)
             removed == Cardinality(DOMAIN ZView(db, ps[1], t)) - Cardinality(DOMAIN d1.zsets[ps[1]])
         IN  << [count |-> removed, list |-> <<>>],
                [count |-> 0, list |-> ZREVRANGEBYSCORE(d1, ps[1], Inf, t - REPLACER_KEY_TTL, t)] >>
             \o ZReplies(d1, Tail(ps), t)

GetReplies(db, ps, t) ==
    [i \in 1..Len(ps) |-> [count |-> IF GET(db, ps[i], t) THEN 1 ELSE 0, list |-> <<>>]]

\* results[from::2], `from` counted from 0 as in Python: the list replies
RECURSIVE EveryOther(_, _)
EveryOther(results, from) ==
    IF from + 1 > Len(results) THEN <<>>
    ELSE <<results[from + 1].list>> \o EveryOther(results, from + 2)

\* get_projects_query_flags slicing results[len(project_ids)::2]
get_projects_query_flags_slice(db, ps, t) ==
    LET results == GetReplies(db, ps, t) \o ZReplies(db, ps, t)
        n       == Len(ps)
        ids     == sum(EveryOther(results, n))
    IN  [needs_final    |-> \E i \in 1..n : results[i].count = 1,
         exclude_groups |-> sorted({ int(ids[i]) : i \in 1..Len(ids) })]

\* get_projects_query_flags(project_ids), the project set iterated in order ps
get_projects_query_flags(db, ps, t) ==
    LET results == GetReplies(db, ps, t) \o ZReplies(db, ps, t)
        n       == Len(ps)
        ids     == sum(EveryOther(results, n + 1))
    IN  [needs_final    |-> \E i \in 1..n : results[i].count = 1,
         exclude_groups |-> sorted({ int(ids[i]) : i \in 1..Len(ids) })]

(* ------------------------------ actions -------------------------------- *)

Tick ==
    /\ now < MaxTime
    /\ now' = now + 1
    /\ ret' = NoRet
    /\ outcome' = NoOutcome
    /\ UNCHANGED <<redis, written, pc, batch, idx, events, query_vars, translate_vars, callers>>

SetProjectExcludeGroups(p, gs) ==
    /\ redis' = set_project_exclude_groups(redis, p, gs, now)
    /\ written' = [written EXCEPT !.ids[p] = [g \in GroupIds |-> IF g \in gs THEN now ELSE @[g]]]
    /\ ret' = [NoRet EXCEPT !.op = "set_project_exclude_groups", !.project_ids = <<p>>]
    /\ UNCHANGED <<now, worker_vars, query_vars, translate_vars, callers>>

SetProjectNeedsFinal(p) ==
    /\ redis' = set_project_needs_final(redis, p, now)
    /\ written' = [written EXCEPT !.final[p] = now]
    /\ ret' = [NoRet EXCEPT !.op = "set_project_needs_final", !.project_ids = <<p>>]
    /\ UNCHANGED <<now, worker_vars, query_vars, translate_vars, callers>>

GetProjectsQueryFlags(pids) ==
    \E ps \in Orderings(Range(pids)) :
        LET r == get_projects_query_flags(redis, ps, now)
        IN  /\ redis' = TrimAll(redis, ps, now)
            /\ ret' = [op |-> "get_projects_query_flags", project_ids |-> pids,
                       needs_final |-> r.needs_final, exclude_groups |-> r.exclude_groups]
            /\ UNCHANGED <<now, written, worker_vars, query_vars, translate_vars, callers>>

(* --------------------------- ReplacerWorker ---------------------------- *)

StartTypes == { "start_delete_groups", "start_merge", "start_unmerge", "start_delete_tag" }
EndTypes == { "end_merge", "end_delete_tag", "end_unmerge", "end_delete_groups" }

\* process_message with end_unmerge left out of the end_* tuple
process_message_no_unmerge(message, processed) ==
    LET version == message[1]
        type_   == message[2]
        event   == message[3]
    IN  IF version = 2
        THEN IF type_ \in StartTypes
             THEN [calls |-> <<>>, raised |-> "none", returned |-> NoneUnit]
             ELSE IF type_ \in EndTypes \ {"end_unmerge"}
             THEN [calls |-> << <<type_, event>> >>, raised |-> "none", returned |-> processed]
             ELSE [calls |-> <<>>, raised |-> "InvalidMessageType", returned |-> NoneUnit]
        ELSE [calls |-> <<>>, raised |-> "InvalidMessageVersion", returned |-> NoneUnit]

\* process_message(message), where `processed` is what
\* dataset.PROCESSOR.process_replacement returns if it is called
process_message(message, processed) ==
    LET version == message[1]
        type_   == message[2]
        event   == message[3]
    IN  IF version = 2
        THEN IF type_ \in StartTypes
             THEN [calls |-> <<>>, raised |-> "none", returned |-> NoneUnit]
             ELSE IF type_ \in EndTypes
             THEN [calls |-> << <<type_, event>> >>, raised |-> "none", returned |-> processed]
             ELSE [calls |-> <<>>, raised |-> "InvalidMessageType", returned |-> NoneUnit]
        ELSE [calls |-> <<>>, raised |-> "InvalidMessageVersion", returned |-> NoneUnit]

ProcessMessage(message, processed) ==
    /\ pc = "idle"
    /\ LET r == process_message(message, processed)
       IN  outcome' = [op |-> "process_message", message |-> message,
                       processed |-> IF r.calls = <<>> THEN NoneUnit ELSE processed,
                       calls |-> r.calls, raised |-> r.raised, returned |-> r.returned]
    /\ ret' = NoRet
    /\ UNCHANGED <<now, redis, written, pc, batch, idx, events, query_vars, translate_vars, callers>>

\* flush_batch(batch) is entered
FlushBatch(b) ==
    /\ pc = "idle"
    /\ batch' = b
    /\ idx' = 1
    /\ events' = <<>>
    /\ pc' = IF Len(b) = 0 THEN "done" ELSE "count"
    /\ ret' = NoRet
    /\ outcome' = NoOutcome
    /\ UNCHANGED <<now, redis, written, query_vars, translate_vars, callers>>

\* the for loop moves to the next unit, or ends
NextUnit == IF idx + 1 > Len(batch) THEN "done" ELSE "count"

\* the count query without the `if count == 0: continue`
CountQuery_no_skip(count) ==
    /\ pc = "count"
    /\ events' = Append(events, [kind |-> "count", unit |-> idx, count |-> count])
    /\ idx' = idx
    /\ pc' = "flags"
    /\ UNCHANGED <<now, redis, written, ret, batch, outcome, query_vars, translate_vars, callers>>

\* count = self.clickhouse.execute_robust(count_query)[0][0]; if count == 0: continue
CountQuery(count) ==
    /\ pc = "count"
    /\ events' = Append(events, [kind |-> "count", unit |-> idx, count |-> count])
    /\ IF count = 0
       THEN /\ idx' = idx + 1
            /\ pc' = NextUnit
       ELSE /\ idx' = idx
            /\ pc' = "flags"
    /\ UNCHANGED <<now, redis, written, ret, batch, outcome, query_vars, translate_vars, callers>>

\* the flags step with the EXCLUDE_GROUPS branch never taken
UpdateFlags_final_only ==
    /\ pc = "flags"
    /\ LET flag_type  == batch[idx].flag_type
           project_id == batch[idx].project_id
       IN  IF flag_type = NEEDS_FINAL
           THEN /\ redis' = set_project_needs_final(redis, project_id, now)
                /\ written' = [written EXCEPT !.final[project_id] = now]
                /\ events' = Append(events, [kind |-> "set_project_needs_final",
                                             unit |-> idx, count |-> 0])
           ELSE UNCHANGED <<redis, written, events>>
    /\ pc' = "insert"
    /\ UNCHANGED <<now, ret, batch, idx, outcome, query_vars, translate_vars, callers>>

\* the query_time_flags of the unit are applied to the state store
UpdateFlags ==
    /\ pc = "flags"
    /\ LET flag_type  == batch[idx].flag_type
           project_id == batch[idx].project_id
       IN  IF flag_type = NEEDS_FINAL
           THEN /\ redis' = set_project_needs_final(redis, project_id, now)
                /\ written' = [written EXCEPT !.final[project_id] = now]
                /\ events' = Append(events, [kind |-> "set_project_needs_final",
                                             unit |-> idx, count |-> 0])
           ELSE IF flag_type = EXCLUDE_GROUPS
           THEN LET group_ids == batch[idx].group_ids
                IN  /\ redis' = set_project_exclude_groups(redis, project_id, group_ids, now)
                    /\ written' = [written EXCEPT !.ids[project_id] =
                                     [g \in GroupIds |-> IF g \in group_ids THEN now ELSE @[g]]]
                    /\ events' = Append(events, [kind |-> "set_project_exclude_groups",
                                                 unit |-> idx, count |-> 0])
           ELSE UNCHANGED <<redis, written, events>>
    /\ pc' = "insert"
    /\ UNCHANGED <<now, ret, batch, idx, outcome, query_vars, translate_vars, callers>>

\* self.clickhouse.execute_robust(insert_query)
InsertQuery ==
    /\ pc = "insert"
    /\ events' = Append(events, [kind |-> "insert", unit |-> idx, count |-> 0])
    /\ idx' = idx + 1
    /\ pc' = NextUnit
    /\ UNCHANGED <<now, redis, written, ret, batch, outcome, query_vars, translate_vars, callers>>

\* flush_batch returns
Return ==
    /\ pc = "done"
    /\ pc' = "idle"
    /\ batch' = <<>>
    /\ idx' = 0
    /\ events' = <<>>
    /\ UNCHANGED <<now, redis, written, ret, outcome, query_vars, translate_vars, callers>>

NextWorker ==
    \/ Tick
    \/ \E v \in Versions, t \in MessageTypes, e \in Payloads, u \in Units \cup {NoneUnit} :
          ProcessMessage(<<v, t, e>>, u)
    \/ \E b \in Batches : FlushBatch(b)
    \/ \E c \in Counts : CountQuery(c)
    \/ UpdateFlags
    \/ InsertQuery
    \/ Return

SpecWorker == Init /\ [][NextWorker]_vars

(* ------------------- storage selection and processors ------------------ *)

\* EVENTS_COLUMNS: the names of the columns only the events schema has
\* (nested columns by their flattened names)
EVENTS_COLUMNS ==
    { "group_id", "primary_hash", "level", "logger", "server_name", "site", "url",
      "location", "culprit", "received", "sdk_integrations", "version",
      "exception_stacks.type", "exception_stacks.value",
      "exception_stacks.mechanism_type", "exception_stacks.mechanism_handled",
      "exception_frames.abs_path", "exception_frames.filename",
      "exception_frames.package", "exception_frames.module",
      "exception_frames.function", "exception_frames.in_app",
      "exception_frames.colno", "exception_frames.lineno",
      "exception_frames.stack_level", "modules.name", "modules.version" }

\* TRANSACTIONS_COLUMNS without duration
TRANSACTIONS_COLUMNS_no_duration ==
    { "trace_id", "span_id", "transaction_hash", "transaction_op",
      "transaction_status", "measurements.key", "measurements.value" }

\* TRANSACTIONS_COLUMNS: the names of the columns only the transactions
\* schema has
TRANSACTIONS_COLUMNS ==
    { "trace_id", "span_id", "transaction_hash", "transaction_op",
      "transaction_status", "duration", "measurements.key", "measurements.value" }

\* the column names a query refers to in its conditions, selected columns
\* and aggregation arguments
ReferencedColumns(q) ==
    ({ q.conditions[i][1] : i \in 1..Len(q.conditions) }
        \cup Range(q.selected_columns)
        \cup { q.aggregations[i][2] : i \in 1..Len(q.aggregations) }) \ {""}

\* select_storage(query, request_settings) of the discover selector
select_storage(q) ==
    IF \E i \in 1..Len(q.conditions) : q.conditions[i] = <<"type", "=", "transaction">>
    THEN "transactions"
    ELSE LET names == ReferencedColumns(q)
         IN  IF names \cap TRANSACTIONS_COLUMNS # {} /\ names \cap EVENTS_COLUMNS = {}
             THEN "transactions"
             ELSE "events"

\* storage.get_dataset_schemas().get_read_schema().get_data_source():
\* the table of the storage; whether it supports sampling is the schema's
get_data_source(st, supports_sample) ==
    [table |-> IF st = "transactions" THEN "test_transactions_local" ELSE "test_sentry_local",
     supports_sample |-> supports_sample]

\* truth value of a sample in `if query.get_sample():`
Truthy(sample) == sample # NoneSample /\ sample # 0

\* SamplingRateProcessor.process_query that un-binds a data source which
\* does not support sampling
SamplingRateProcessor_unbind(q, settings_) ==
    IF ~q.data_source.supports_sample
    THEN [q EXCEPT !.sample = NoneSample, !.data_source = NoDataSource]
    ELSE q

\* SamplingRateProcessor.process_query without the early return on a
\* sample that is already set
SamplingRateProcessor_no_return(q, settings_) ==
    LET q1 == IF ~q.data_source.supports_sample THEN [q EXCEPT !.sample = NoneSample] ELSE q
    IN  IF settings_.mode = AUTO_DEPRECATED
        THEN IF settings_.turbo THEN [q1 EXCEPT !.sample = TURBO_SAMPLE_RATE]
             ELSE q1
        ELSE q1

\* SamplingRateProcessor.process_query(query, request_settings)
SamplingRateProcessor(q, settings_) ==
    LET q1 == IF ~q.data_source.supports_sample THEN [q EXCEPT !.sample = NoneSample] ELSE q
    IN  IF settings_.mode = AUTO_DEPRECATED
        THEN IF Truthy(q1.sample) THEN q1
             ELSE IF settings_.turbo THEN [q1 EXCEPT !.sample = TURBO_SAMPLE_RATE]
             ELSE q1
        ELSE q1

\* The processors that rewrite the expressions of the query (time bucketing,
\* tag expansion, basic functions): sample and data source are not theirs
ExpressionProcessor(q, settings_) == q

\* the processors configured for the query, the sampling rate last
QueryProcessors ==
    << "TimeSeriesProcessor", "TagsExpanderProcessor", "BasicFunctionsProcessor",
       "SamplingRateProcessor" >>

process_query(name, q, settings_) ==
    IF name = "SamplingRateProcessor" THEN SamplingRateProcessor(q, settings_)
    ELSE ExpressionProcessor(q, settings_)

InitQuery ==
    /\ InitReplacer
    /\ query \in { NewQuery(c, sc, a, sm) :
                     c \in ConditionLists, sc \in SelectedColumnLists,
                     a \in AggregationLists, sm \in Samples }
    /\ request_settings \in [turbo : BOOLEAN, mode : SamplingModes]
    /\ storage = "None"
    /\ applied = <<>>
    /\ InitTranslator
    /\ InitCallers

\* storage = selector.select_storage(query, request_settings)
SelectStorage ==
    /\ storage = "None"
    /\ storage' = select_storage(query)
    /\ UNCHANGED <<translate_vars, callers, store_vars, worker_vars, query, request_settings, applied>>

\* query.set_data_source(storage...get_data_source())
SetDataSource(supports_sample) ==
    /\ storage # "None"
    /\ query.data_source = NoDataSource
    /\ applied = <<>>
    /\ query' = [query EXCEPT !.data_source = get_data_source(storage, supports_sample)]
    /\ UNCHANGED <<translate_vars, callers, store_vars, worker_vars, request_settings, storage, applied>>

\* the next processor of the pipeline runs on the bound query
ProcessQuery ==
    /\ query.data_source # NoDataSource
    /\ Len(applied) < Len(QueryProcessors)
    /\ LET name == QueryProcessors[Len(applied) + 1]
       IN  /\ query' = process_query(name, query, request_settings)
           /\ applied' = Append(applied, name)
    /\ UNCHANGED <<translate_vars, callers, store_vars, worker_vars, request_settings, storage>>

NextQuery ==
    \/ SelectStorage
    \/ \E b \in BOOLEAN : SetDataSource(b)
    \/ ProcessQuery

SpecQuery == InitQuery /\ [][NextQuery]_vars

Next ==
    \/ Tick
    \/ \E c \in ExcludeCalls : SetProjectExcludeGroups(c[1], c[2])
    \/ \E p \in Projects : SetProjectNeedsFinal(p)
    \/ \E pids \in ProjectIdLists : GetProjectsQueryFlags(pids)

Spec == Init /\ [][Next]_vars

(* ---------------------- mappers and the translator --------------------- *)

\* Python's `x or y` on an optional string: None and "" count as false
or(x, y) == IF x = None \/ x = "" THEN y ELSE x

\* snuba.util.qualified_column(column_name, alias)
qualified_column(column_name, alias) ==
    IF alias = "" THEN column_name ELSE alias \o "." \o column_name

\* snuba.query.dsl.identity(expression, alias)
identity(e, alias) == FunctionCall(alias, "identity", <<e>>)

\* DefaultNoneColumnMapper that drops the alias of the column
DefaultNoneColumnMapper_no_alias(self, e) ==
    IF e.column_name \in self.columns
    THEN Literal(qualified_column(e.column_name, or(e.table_name, "")), None)
    ELSE Absent

\* DefaultNoneColumnMapper(columns).attempt_map
DefaultNoneColumnMapper(self, e) ==
    IF e.column_name \in self.columns
    THEN Literal(or(e.alias, qualified_column(e.column_name, or(e.table_name, ""))),
                 None)
    ELSE Absent

\* DefaultNoneFunctionMapper that answers with the bare NULL literal
DefaultNoneFunctionMapper_literal(self, e) ==
    IF e.function_name \in self.function_names
    THEN Literal(e.alias, None)
    ELSE Absent

\* DefaultNoneFunctionMapper(function_names).attempt_map: the matcher is
\* FunctionCall(Or([String(func) ...])), any parameters
DefaultNoneFunctionMapper(self, e) ==
    IF e.function_name \in self.function_names
    THEN identity(Literal(None, None), e.alias)
    ELSE Absent

\* function_match of the two ifNull mappers:
\* FunctionCall(String("ifNull"), (Literal(), Literal())).match(param);
\* Literal() names no value, so a literal of any value matches
function_match(param) ==
    /\ param.kind = "FunctionCall"
    /\ param.function_name = "ifNull"
    /\ Len(param.parameters) = 2
    /\ \A i \in 1..2 : param.parameters[i].kind = "Literal"

\* the loop over the translated parameters that both ifNull mappers run
all_null(parameters) ==
    \A i \in 1..Len(parameters) :
        \/ function_match(parameters[i])
        \/ parameters[i].kind = "Literal" /\ parameters[i].value = None

\* tuple(Literal(None, None) for p in parameters)
NullLiterals(parameters) == [i \in 1..Len(parameters) |-> Literal(None, None)]

HasRaised(parameters) == \E i \in 1..Len(parameters) : parameters[i] = Raised

\* DefaultNoneSubscriptMapper(subscript_names).attempt_map
DefaultNoneSubscriptMapper(self, e) ==
    IF e.column.column_name \in self.subscript_names
    THEN Literal(e.alias, None)
    ELSE Absent

\* ColumnToLiteral(from_table_name, from_col_name, to_literal_value)
ColumnToLiteral(self, e) ==
    IF e.column_name = self.from_col_name /\ e.table_name = self.from_table_name
    THEN Literal(e.alias, self.to_literal_value)
    ELSE Absent

\* the lookup of a key in a nested key/value column:
\* arrayElement(<col>.value, indexOf(<col>.key, key))
NestedLookup(alias, table_name, col_name, key) ==
    FunctionCall(alias, "arrayElement",
        << Column(None, table_name, col_name \o ".value"),
           FunctionCall(None, "indexOf",
               << Column(None, table_name, col_name \o ".key"), key >>) >>)

\* ColumnToMapping(from_table_name, from_col_name, to_nested_col_table_name,
\*                 to_nested_col_name, to_nested_mapping_key)
ColumnToMapping(self, e) ==
    IF e.column_name = self.from_col_name /\ e.table_name = self.from_table_name
    THEN NestedLookup(e.alias, self.to_nested_col_table_name,
                      self.to_nested_col_name,
                      Literal(None, self.to_nested_mapping_key))
    ELSE Absent

\* SubscriptableMapper(from_column_table, from_column_name,
\*                     to_nested_col_table, to_nested_col_name)
SubscriptableMapper(self, e) ==
    IF /\ e.column.column_name = self.from_column_name
       /\ e.column.table_name = self.from_column_table
    THEN NestedLookup(e.alias, self.to_nested_col_table, self.to_nested_col_name,
                      e.key)
    ELSE Absent

RECURSIVE Translate(_, _)
RECURSIVE attempt_map(_, _, _)
RECURSIVE apply_mappers(_, _, _, _)
RECURSIVE DefaultIfNullFunctionMapper(_, _)
RECURSIVE DefaultIfNullCurriedFunctionMapper(_, _)

\* tuple(p.accept(children_translator) for p in expression.parameters)
TranslateAll(rules, parameters) ==
    [i \in 1..Len(parameters) |-> Translate(rules, parameters[i])]

\* DefaultIfNullFunctionMapper that collapses only calls named ifNull
DefaultIfNullFunctionMapper_ifnull_only(rules, e) ==
    LET parameters == TranslateAll(rules, e.parameters)
    IN  IF HasRaised(parameters) THEN Raised
        ELSE IF /\ all_null(parameters)
                /\ Len(parameters) > 0
                /\ e.function_name = "ifNull"
        THEN FunctionCall(e.alias, "ifNull", <<Literal(None, None), Literal(None, None)>>)
        ELSE Absent

\* DefaultIfNullFunctionMapper that keeps no alias on the collapsed call
DefaultIfNullFunctionMapper_no_alias(rules, e) ==
    LET parameters == TranslateAll(rules, e.parameters)
    IN  IF HasRaised(parameters) THEN Raised
        ELSE IF all_null(parameters) /\ Len(parameters) > 0
        THEN FunctionCall(None, "ifNull", <<Literal(None, None), Literal(None, None)>>)
        ELSE Absent

\* DefaultIfNullFunctionMapper().attempt_map; rules are the mappers of the
\* children_translator
DefaultIfNullFunctionMapper(rules, e) ==
    LET parameters == TranslateAll(rules, e.parameters)
    IN  IF HasRaised(parameters) THEN Raised
        ELSE IF all_null(parameters) /\ Len(parameters) > 0
        THEN FunctionCall(e.alias, "ifNull", <<Literal(None, None), Literal(None, None)>>)
        ELSE Absent

\* DefaultIfNullCurriedFunctionMapper that keeps the translated parameters
DefaultIfNullCurriedFunctionMapper_keep_params(rules, e) ==
    LET internal_function == Translate(rules, e.internal_function)
        parameters == TranslateAll(rules, e.parameters)
    IN  IF internal_function.kind # "FunctionCall" THEN Raised
        ELSE IF HasRaised(parameters) THEN Raised
        ELSE IF all_null(parameters) /\ Len(parameters) > 0
        THEN CurriedFunctionCall(e.alias,
                 FunctionCall(None, internal_function.function_name \o "OrNull",
                              internal_function.parameters),
                 parameters)
        ELSE Absent

\* DefaultIfNullCurriedFunctionMapper().attempt_map
DefaultIfNullCurriedFunctionMapper(rules, e) ==
    LET internal_function == Translate(rules, e.internal_function)
        parameters == TranslateAll(rules, e.parameters)
    IN  IF internal_function.kind # "FunctionCall" THEN Raised
        ELSE IF HasRaised(parameters) THEN Raised
        ELSE IF all_null(parameters) /\ Len(parameters) > 0
        THEN CurriedFunctionCall(e.alias,
                 FunctionCall(None, internal_function.function_name \o "OrNull",
                              internal_function.parameters),
                 NullLiterals(parameters))
        ELSE Absent

\* mapper.attempt_map(expression, children_translator)
attempt_map(mapper, rules, e) ==
    CASE mapper.class = "DefaultNoneColumnMapper" -> DefaultNoneColumnMapper(mapper, e)
      [] mapper.class = "ColumnToLiteral" -> ColumnToLiteral(mapper, e)
      [] mapper.class = "ColumnToMapping" -> ColumnToMapping(mapper, e)
      [] mapper.class = "DefaultNoneFunctionMapper" -> DefaultNoneFunctionMapper(mapper, e)
      [] mapper.class = "DefaultIfNullFunctionMapper" -> DefaultIfNullFunctionMapper(rules, e)
      [] mapper.class = "DefaultIfNullCurriedFunctionMapper" ->
            DefaultIfNullCurriedFunctionMapper(rules, e)
      [] mapper.class = "DefaultNoneSubscriptMapper" -> DefaultNoneSubscriptMapper(mapper, e)
      [] mapper.class = "SubscriptableMapper" -> SubscriptableMapper(mapper, e)

\* the position in the rule sequence of the first rule from position i on
\* whose attempt_map answers (returns or raises), 0 when every rule declines
apply_mappers(sequence, rules, e, i) ==
    IF i > Len(sequence) THEN 0
    ELSE IF attempt_map(sequence[i], rules, e) # Absent THEN i
    ELSE apply_mappers(sequence, rules, e, i + 1)

\* the rules of the chain for the kind of the node
RulesFor(rules, e) ==
    CASE e.kind = "Column" -> rules.columns
      [] e.kind = "FunctionCall" -> rules.functions
      [] e.kind = "CurriedFunctionCall" -> rules.curried_functions
      [] e.kind = "SubscriptableReference" -> rules.subscriptables
      [] OTHER -> <<>>

\* the node rebuilt from its translated children
Rebuild(rules, e) ==
    CASE e.kind = "FunctionCall" ->
            LET parameters == TranslateAll(rules, e.parameters)
            IN  IF HasRaised(parameters) THEN Raised
                ELSE FunctionCall(e.alias, e.function_name, parameters)
      [] e.kind = "CurriedFunctionCall" ->
            LET internal_function == Translate(rules, e.internal_function)
                parameters == TranslateAll(rules, e.parameters)
            IN  IF internal_function = Raised \/ HasRaised(parameters) THEN Raised
                ELSE CurriedFunctionCall(e.alias, internal_function, parameters)
      [] e.kind = "SubscriptableReference" ->
            LET column == Translate(rules, e.column)
                key == Translate(rules, e.key)
            IN  IF column = Raised \/ key = Raised THEN Raised
                ELSE SubscriptableReference(e.alias, column, key)
      [] OTHER -> e

\* expression.accept(SnubaClickhouseStrictTranslator(rules))
Translate(rules, e) ==
    LET sequence == RulesFor(rules, e)
        first == apply_mappers(sequence, rules, e, 1)
    IN  IF first = 0 THEN Rebuild(rules, e)
        ELSE attempt_map(sequence[first], rules, e)

\* TranslationMappers.concat(other)
concat(self, other) ==
    [columns |-> self.columns \o other.columns,
     functions |-> self.functions \o other.functions,
     curried_functions |-> self.curried_functions \o other.curried_functions,
     subscriptables |-> self.subscriptables \o other.subscriptables]

events_translation_mappers ==
    [columns |-> << [class |-> "DefaultNoneColumnMapper", columns |-> TRANSACTIONS_COLUMNS] >>,
     functions |-> << [class |-> "DefaultNoneFunctionMapper",
                       function_names |-> {"apdex", "failure_rate"}] >>,
     curried_functions |-> <<>>,
     subscriptables |-> << [class |-> "DefaultNoneSubscriptMapper",
                            subscript_names |-> {"measurements"}] >>]

\* transaction_translation_mappers with its two column rules swapped
transaction_translation_mappers_swapped ==
    [columns |-> << [class |-> "DefaultNoneColumnMapper", columns |-> EVENTS_COLUMNS],
                    [class |-> "ColumnToLiteral", from_table_name |-> None,
                     from_col_name |-> "group_id", to_literal_value |-> "0"] >>,
     functions |-> << [class |-> "DefaultNoneFunctionMapper",
                       function_names |-> {"isHandled", "notHandled"}] >>,
     curried_functions |-> <<>>,
     subscriptables |-> <<>>]

transaction_translation_mappers ==
    [columns |-> << [class |-> "ColumnToLiteral", from_table_name |-> None,
                     from_col_name |-> "group_id", to_literal_value |-> "0"],
                    [class |-> "DefaultNoneColumnMapper", columns |-> EVENTS_COLUMNS] >>,
     functions |-> << [class |-> "DefaultNoneFunctionMapper",
                       function_names |-> {"isHandled", "notHandled"}] >>,
     curried_functions |-> <<>>,
     subscriptables |-> <<>>]

null_function_translation_mappers ==
    [columns |-> <<>>,
     functions |-> << [class |-> "DefaultIfNullFunctionMapper"] >>,
     curried_functions |-> << [class |-> "DefaultIfNullCurriedFunctionMapper"] >>,
     subscriptables |-> <<>>]

\* the TranslationMappers DiscoverEntity concatenates last
tags_translation_mappers ==
    [columns |-> << [class |-> "ColumnToMapping", from_table_name |-> None,
                     from_col_name |-> "release", to_nested_col_table_name |-> None,
                     to_nested_col_name |-> "tags",
                     to_nested_mapping_key |-> "sentry:release"],
                    [class |-> "ColumnToMapping", from_table_name |-> None,
                     from_col_name |-> "dist", to_nested_col_table_name |-> None,
                     to_nested_col_name |-> "tags",
                     to_nested_mapping_key |-> "sentry:dist"],
                    [class |-> "ColumnToMapping", from_table_name |-> None,
                     from_col_name |-> "user", to_nested_col_table_name |-> None,
                     to_nested_col_name |-> "tags",
                     to_nested_mapping_key |-> "sentry:user"] >>,
     functions |-> <<>>,
     curried_functions |-> <<>>,
     subscriptables |-> << [class |-> "SubscriptableMapper", from_column_table |-> None,
                            from_column_name |-> "tags", to_nested_col_table |-> None,
                            to_nested_col_name |-> "tags"],
                           [class |-> "SubscriptableMapper", from_column_table |-> None,
                            from_column_name |-> "contexts", to_nested_col_table |-> None,
                            to_nested_col_name |-> "contexts"] >>]

\* the mappers DiscoverEntity hands to its storage selector
DiscoverEntityMappers ==
    concat(concat(concat(events_translation_mappers, transaction_translation_mappers),
                  null_function_translation_mappers),
           tags_translation_mappers)

\* the concat calls the entities make: <<the chain so far, the argument>>
ConcatCalls ==
    { <<events_translation_mappers, transaction_translation_mappers>>,
      <<concat(events_translation_mappers, transaction_translation_mappers),
        null_function_translation_mappers>>,
      <<concat(concat(events_translation_mappers, transaction_translation_mappers),
               null_function_translation_mappers),
        tags_translation_mappers>>,
      <<events_translation_mappers, null_function_translation_mappers>>,
      <<transaction_translation_mappers, null_function_translation_mappers>> }

(* the logical expressions handed to the translator *)

\* the deepest nesting of function calls in an expression
MaxDepth == 2

Aliases == { None, "", "g" }
TableNames == { None, "t" }

ColumnExpressions ==
    { Column(a, t, n) : a \in Aliases, t \in TableNames,
                        n \in { "group_id", "duration", "project_id" } }
        \cup { Column(None, None, "release") }

LiteralExpressions == { Literal(None, None), Literal(None, "5") }

\* the expressions calls are built from
Atoms ==
    LiteralExpressions
        \cup { Column(None, None, "duration"), Column(None, None, "group_id") }

\* the parameter tuples built around an expression x
Shapes(x) == { <<x>>, <<x, x>>, <<Literal(None, None), x>> }

ParameterTuples(arguments) == { <<>> } \cup UNION { Shapes(x) : x \in arguments }

CallsOver(arguments, aliases) ==
    { FunctionCall(a, n, ps) : a \in aliases, n \in { "ifNull", "f" },
                               ps \in ParameterTuples(arguments) }

RECURSIVE Arguments(_)
Arguments(d) ==
    IF d = 0 THEN Atoms ELSE Atoms \cup CallsOver(Arguments(d - 1), { None })

FunctionExpressions ==
    CallsOver(Arguments(MaxDepth - 1), { None, "g" })
        \cup { FunctionCall(a, n, <<Literal(None, "5")>>) :
                 a \in { None, "g" }, n \in { "apdex", "isHandled" } }

InternalFunctions ==
    { FunctionCall(None, "f", <<Literal(None, "5")>>),
      FunctionCall(None, "f", <<Column(None, None, "duration")>>),
      FunctionCall(None, "apdex", <<Literal(None, "5")>>) }

CurriedExpressions ==
    { CurriedFunctionCall(a, f, ps) :
        a \in { None, "g" }, f \in InternalFunctions,
        ps \in ParameterTuples(Arguments(MaxDepth - 1)) }

SubscriptExpressions ==
    { SubscriptableReference(a, Column(None, None, n), Literal(None, "k")) :
        a \in { None, "g" }, n \in { "measurements", "tags" } }

Expressions ==
    ColumnExpressions \cup LiteralExpressions \cup FunctionExpressions
        \cup CurriedExpressions \cup SubscriptExpressions

InitTranslate ==
    /\ InitReplacer
    /\ query = NewQuery(<<>>, <<>>, <<>>, NoneSample)
    /\ request_settings = [turbo |-> FALSE, mode |-> "NONE"]
    /\ storage = "None"
    /\ applied = <<>>
    /\ InitCallers
    /\ expression \in Expressions
    /\ mappers \in { events_translation_mappers, transaction_translation_mappers }
    /\ attempt = NoAttempt
    /\ translated = NoTranslated

\* mappers = mappers.concat(other), before the translator is built
Concat(other) ==
    /\ <<mappers, other>> \in ConcatCalls
    /\ attempt = NoAttempt
    /\ translated = NoTranslated
    /\ mappers' = concat(mappers, other)
    /\ UNCHANGED <<expression, attempt, translated, callers, store_vars, worker_vars,
                   query_vars>>

\* rule i of the node's kind is asked alone: attempt_map(expression, translator)
AttemptMap(i) ==
    /\ i \in 1..Len(RulesFor(mappers, expression))
    /\ attempt' = [mapper |-> RulesFor(mappers, expression)[i], position |-> i,
                   result |-> attempt_map(RulesFor(mappers, expression)[i], mappers,
                                          expression)]
    /\ translated' = NoTranslated
    /\ UNCHANGED <<expression, mappers, callers, store_vars, worker_vars, query_vars>>

\* expression.accept(translator)
TranslateExpression ==
    /\ translated = NoTranslated
    /\ translated' = [result |-> Translate(mappers, expression), again |-> Absent]
    /\ attempt' = NoAttempt
    /\ UNCHANGED <<expression, mappers, callers, store_vars, worker_vars, query_vars>>

\* the translated expression is handed to the translator once more
TranslateAgain ==
    /\ translated.result \notin { Absent, Raised }
    /\ translated.again = Absent
    /\ translated' = [translated EXCEPT !.again = Translate(mappers, translated.result)]
    /\ UNCHANGED <<expression, mappers, attempt, callers, store_vars, worker_vars,
                   query_vars>>

NextTranslate ==
    \/ \E other \in { c[2] : c \in ConcatCalls } : Concat(other)
    \/ \E i \in 1..Len(DiscoverEntityMappers.columns) : AttemptMap(i)
    \/ TranslateExpression
    \/ TranslateAgain

SpecTranslate == InitTranslate /\ [][NextTranslate]_vars

(* ------------------------ workers side by side ------------------------- *)
(* set_project_exclude_groups reads the clock (line 34), builds the         *)
(* pipeline and executes it (line 42); the pipeline is atomic in the store, *)
(* the clock reading is not part of it.  set_project_needs_final is one     *)
(* command.                                                                 *)

\* the calls one worker makes at most
MaxCalls == 1

\* set_project_exclude_groups that prunes up to its own clock reading
set_project_exclude_groups_at_prune_now(db, project_id, group_ids, read, t) ==
    LET d1 == ZADD(db, project_id, { str(g) : g \in group_ids }, read, t)
        d2 == ZREMRANGEBYSCORE(d1, project_id, -1, read, t)
    IN  EXPIRE(d2, project_id, REPLACER_KEY_TTL, t)

\* set_project_exclude_groups(project_id, group_ids) whose clock reading is
\* `read` and whose pipeline the store executes at time t
set_project_exclude_groups_at(db, project_id, group_ids, read, t) ==
    LET d1 == ZADD(db, project_id, { str(g) : g \in group_ids }, read, t)
        d2 == ZREMRANGEBYSCORE(d1, project_id, -1, read - REPLACER_KEY_TTL, t)
    IN  EXPIRE(d2, project_id, REPLACER_KEY_TTL, t)

\* worker w calls set_project_exclude_groups(p, gs): now = time.time() and
\* the pipeline is built
CallExcludeGroups(w, p, gs) ==
    /\ callers[w].pc \in { "idle", "done" }
    /\ callers[w].calls < MaxCalls
    /\ callers' = [callers EXCEPT ![w] =
                     [pc |-> "execute", now |-> now, op |-> "set_project_exclude_groups",
                      project_id |-> p, group_ids |-> gs, calls |-> @.calls + 1]]
    /\ UNCHANGED <<store_vars, worker_vars, query_vars, translate_vars>>

\* p.execute() of worker w
Execute(w) ==
    /\ callers[w].pc = "execute"
    /\ LET c == callers[w]
       IN  /\ redis' = set_project_exclude_groups_at(redis, c.project_id, c.group_ids,
                                                     c.now, now)
           /\ written' = [written EXCEPT !.ids[c.project_id] =
                            [g \in GroupIds |-> IF g \in c.group_ids THEN c.now ELSE @[g]]]
    /\ callers' = [callers EXCEPT ![w].pc = "done"]
    /\ UNCHANGED <<now, ret, worker_vars, query_vars, translate_vars>>

\* worker w calls set_project_needs_final(p)
CallNeedsFinal(w, p) ==
    /\ callers[w].pc \in { "idle", "done" }
    /\ callers[w].calls < MaxCalls
    /\ redis' = set_project_needs_final(redis, p, now)
    /\ written' = [written EXCEPT !.final[p] = now]
    /\ callers' = [callers EXCEPT ![w] =
                     [pc |-> "done", now |-> now, op |-> "set_project_needs_final",
                      project_id |-> p, group_ids |-> {}, calls |-> @.calls + 1]]
    /\ UNCHANGED <<now, ret, worker_vars, query_vars, translate_vars>>

NextConcurrent ==
    \/ Tick
    \/ \E w \in Workers, c \in ExcludeCalls : CallExcludeGroups(w, c[1], c[2])
    \/ \E w \in Workers : Execute(w)
    \/ \E w \in Workers, p \in Projects : CallNeedsFinal(w, p)

SpecConcurrent == Init /\ [][NextConcurrent]_vars

(* ----------------------- the worker and a reader ----------------------- *)

\* the project_ids a query asks get_projects_query_flags for while the
\* worker runs
ReaderLists == { <<2>>, <<2, 1, 2>> }

NextReplacer ==
    \/ NextWorker
    \/ \E pids \in ReaderLists : GetProjectsQueryFlags(pids)

SpecReplacer == Init /\ [][NextReplacer]_vars

(* ------------------------ flush_batch, failing -------------------------- *)
(* execute_robust can raise (the client gives up after its retries).        *)
(* flush_batch has no try, no finally and no compensation: the exception    *)
(* leaves the for loop at the statement that raised it and reaches the      *)
(* caller of flush_batch.                                                   *)

\* the exception execute_robust raises
ClickhouseError == "ClickhouseError"

\* the outcome of a flush_batch call that an exception has left
FlushRaised == [NoOutcome EXCEPT !.op = "flush_batch", !.raised = ClickhouseError]

\* the count query of the unit raises (replacer.py:125)
CountQueryRaises ==
    /\ pc = "count"
    /\ events' = Append(events, [kind |-> "count_raised", unit |-> idx, count |-> 0])
    /\ pc' = "raised"
    /\ UNCHANGED <<now, redis, written, ret, batch, idx, outcome, query_vars, translate_vars, callers>>

\* an insert query that undoes the unit's consistency update when it raises
InsertQueryRaises_rollback ==
    /\ pc = "insert"
    /\ events' = Append(events, [kind |-> "insert_raised", unit |-> idx, count |-> 0])
    /\ pc' = "raised"
    /\ redis' = [redis EXCEPT !.flag[batch[idx].project_id] = NoKey,
                              !.zsets[batch[idx].project_id] = EmptyZSet]
    /\ UNCHANGED <<now, written, ret, batch, idx, outcome, query_vars, translate_vars, callers>>

\* the insert query of the unit raises (replacer.py:139), after the unit's
\* consistency update of lines 130-135
InsertQueryRaises ==
    /\ pc = "insert"
    /\ events' = Append(events, [kind |-> "insert_raised", unit |-> idx, count |-> 0])
    /\ pc' = "raised"
    /\ UNCHANGED <<now, redis, written, ret, batch, idx, outcome, query_vars, translate_vars, callers>>

\* the exception reaches the caller of flush_batch
Propagate ==
    /\ pc = "raised"
    /\ pc' = "idle"
    /\ outcome' = FlushRaised
    /\ batch' = <<>>
    /\ idx' = 0
    /\ events' = <<>>
    /\ UNCHANGED <<now, redis, written, ret, query_vars, translate_vars, callers>>

NextFlushRaises ==
    \/ NextWorker
    \/ CountQueryRaises
    \/ InsertQueryRaises
    \/ Propagate

SpecFlushRaises == Init /\ [][NextFlushRaises]_vars

(* ===================== properties of the replacer ====================== *)

IsFlagKind(k) == k \in { "set_project_needs_final", "set_project_exclude_groups" }

\* the step in which flush_batch runs a count query that returns 0
ZeroCountStep ==
    /\ Len(events') = Len(events) + 1
    /\ events'[Len(events')].kind = "count"
    /\ events'[Len(events')].count = 0

\* C1: a unit whose count query returns 0 gets neither an insert query nor a
\* consistency-state write; the step that finds the zero count leaves the
\* state store as it was and moves on to the next unit of the batch.
C1_SkipOnZeroCount ==
    /\ [](\A i \in 1..Len(events) :
             (events[i].kind = "count" /\ events[i].count = 0)
                => \A j \in 1..Len(events) :
                      events[j].unit = events[i].unit => j = i)
    /\ [][ZeroCountStep =>
             /\ redis' = redis
             /\ written' = written
             /\ idx' = idx + 1
             /\ pc' = (IF idx' <= Len(batch) THEN "count" ELSE "done")]_vars

\* C1 witness: the first unit was skipped on a zero count and the second
\* unit was then counted, flagged and inserted.
C1_Witness ==
    /\ Len(batch) = 2
    /\ Len(events) = 4
    /\ events[1] = [kind |-> "count", unit |-> 1, count |-> 0]
    /\ events[2].kind = "count" /\ events[2].unit = 2
    /\ IsFlagKind(events[3].kind)
    /\ events[4].kind = "insert"

\* the kind of state-store call the unit's query_time_flags ask for
FlagKindOf(u) ==
    IF u.flag_type = NEEDS_FINAL THEN "set_project_needs_final"
    ELSE "set_project_exclude_groups"

\* the unit's consistency update is in the state store
Applied(db, u) ==
    IF u.flag_type = NEEDS_FINAL
    THEN db.flag[u.project_id] # NoKey
    ELSE \A g \in u.group_ids : str(g) \in DOMAIN db.zsets[u.project_id]

\* the step in which flush_batch executes an insert query
InsertStep ==
    /\ Len(events') = Len(events) + 1
    /\ events'[Len(events')].kind = "insert"

\* the events of one flush are those of unit 1, then those of unit 2, ...;
\* a unit's events are count, then (count # 0) its state update, then insert
EventsInOrder ==
    /\ Len(events) > 0 =>
          /\ events[1].kind = "count"
          /\ events[1].unit = 1
    /\ \A i \in 1..Len(events) :
          /\ events[i].unit \in 1..Len(batch)
          /\ IsFlagKind(events[i].kind) => events[i].kind = FlagKindOf(batch[events[i].unit])
    /\ \A i \in 1..(Len(events) - 1) :
          LET e == events[i]
              f == events[i + 1]
          IN  \/ /\ e.kind = "count" /\ e.count # 0
                 /\ IsFlagKind(f.kind) /\ f.unit = e.unit
              \/ /\ IsFlagKind(e.kind)
                 /\ f.kind = "insert" /\ f.unit = e.unit
              \/ /\ e.kind = "insert" \/ (e.kind = "count" /\ e.count = 0)
                 /\ f.kind = "count" /\ f.unit = e.unit + 1

\* C2: units are handled one at a time in batch order, each as count query,
\* then consistency update, then insert query; when an insert is executed the
\* unit's consistency update is already in the state store.
C2_CountUpdateInsertOrder ==
    /\ []EventsInOrder
    /\ [][InsertStep =>
             /\ events'[Len(events')].unit = idx
             /\ Applied(redis, batch[idx])]_vars

\* C2 witness: a batch of two units, both counted, flagged and inserted.
C2_Witness ==
    /\ pc = "done"
    /\ Len(batch) = 2
    /\ Len(events) = 6
    /\ batch[1].flag_type = EXCLUDE_GROUPS
    /\ batch[2].flag_type = NEEDS_FINAL

\* C6: process_message has exactly one outcome per message: a version other
\* than 2 raises InvalidMessageVersion; version 2 with a start_* type returns
\* None without calling the processor; version 2 with an end_* type calls the
\* processor once with (type, payload) and returns its result; any other type
\* raises InvalidMessageType.  No store is touched by the call itself.
C6_MessageClassification ==
    /\ [](outcome.op = "process_message" =>
            LET version == outcome.message[1]
                type_   == outcome.message[2]
                payload == outcome.message[3]
            IN  IF version # 2
                THEN /\ outcome.raised = "InvalidMessageVersion"
                     /\ outcome.calls = <<>>
                ELSE IF type_ \in { "start_delete_groups", "start_merge",
                                    "start_unmerge", "start_delete_tag" }
                THEN /\ outcome.raised = "none"
                     /\ outcome.returned = NoneUnit
                     /\ outcome.calls = <<>>
                ELSE IF type_ \in { "end_delete_groups", "end_merge",
                                    "end_unmerge", "end_delete_tag" }
                THEN /\ outcome.raised = "none"
                     /\ outcome.calls = << <<type_, payload>> >>
                     /\ outcome.returned = outcome.processed
                ELSE /\ outcome.raised = "InvalidMessageType"
                     /\ outcome.calls = <<>>)
    /\ [][outcome'.op = "process_message" => (redis' = redis /\ events' = events)]_vars

\* C6 witness: an end_unmerge message of version 2 was handed to the
\* processor, whose unit of work was returned.
C6_Witness ==
    /\ outcome.op = "process_message"
    /\ outcome.message = <<2, "end_unmerge", "event_b">>
    /\ outcome.calls = << <<"end_unmerge", "event_b">> >>
    /\ outcome.returned \in Units
    /\ redis # EmptyDb

(* ================ properties of the consistency state store ============ *)

IsQuery(r) == r.op = "get_projects_query_flags"

\* the needs-final flag of project p is set in store db at time t
FlagSet(db, p, t) == db.flag[p] # NoKey /\ t <= db.flag[p]

\* the live excluded ids of project p in store db at time t, as integers
LiveIds(db, p, t) ==
    IF db.zexpire[p] # NoKey /\ t > db.zexpire[p] THEN {}
    ELSE { g \in GroupIds : /\ str(g) \in DOMAIN db.zsets[p]
                            /\ t - db.zsets[p][str(g)] < REPLACER_KEY_TTL }

StrictlyAscending(s) == \A i, j \in 1..Len(s) : i < j => s[i] < s[j]

\* C3: get_projects_query_flags returns needs_final = true exactly when one
\* of the queried projects has its flag set, and the excluded ids are the
\* union of the live ids of the queried projects, as integers in ascending
\* order without duplicates; projects that are not queried do not count.
C3_UnionAndAny ==
    [][IsQuery(ret') =>
         LET queried == Range(ret'.project_ids)
         IN  /\ ret'.needs_final = (\E p \in queried : FlagSet(redis, p, now))
             /\ Range(ret'.exclude_groups) = UNION { LiveIds(redis, p, now) : p \in queried }
             /\ StrictlyAscending(ret'.exclude_groups)]_vars

\* C3 witness: a query of [2, 1, 2] answered needs_final with ids [2, 10],
\* id 10 being live in both projects and the flag set for project 2 only.
C3_Witness ==
    /\ IsQuery(ret)
    /\ ret.project_ids = <<2, 1, 2>>
    /\ ret.needs_final
    /\ ret.exclude_groups = <<2, 10>>
    /\ redis.flag[1] = NoKey
    /\ LiveIds(redis, 1, now) = {2, 10}
    /\ LiveIds(redis, 2, now) = {10}

\* C4: an id last recorded for p at time t is returned by a query of p made
\* less than the retention window after t, and is not returned by a query
\* made more than the retention window after t, whatever was written for
\* other ids of the project in between.
C4_IdRetention ==
    IsQuery(ret) =>
        \A p \in Range(ret.project_ids), g \in GroupIds :
            LET t == written.ids[p][g]
            IN  /\ (t # NoKey /\ now - t < REPLACER_KEY_TTL)
                      => g \in Range(ret.exclude_groups)
                /\ (Range(ret.project_ids) = {p} /\ t # NoKey /\ now - t > REPLACER_KEY_TTL)
                      => g \notin Range(ret.exclude_groups)

\* C4 witness: id 2 of project 1 has aged out while id 10, written later,
\* keeps the project's sorted set alive, and the query returns only 10.
C4_Witness ==
    /\ IsQuery(ret)
    /\ ret.project_ids = <<1>>
    /\ written.ids[1][2] # NoKey
    /\ now - written.ids[1][2] > REPLACER_KEY_TTL
    /\ written.ids[1][10] # NoKey
    /\ now - written.ids[1][10] < REPLACER_KEY_TTL
    /\ ret.exclude_groups = <<10>>

\* every entry ever written for project p is older than the retention window
AllExpired(p) ==
    /\ written.final[p] # NoKey => now - written.final[p] > REPLACER_KEY_TTL
    /\ \A g \in GroupIds :
          written.ids[p][g] # NoKey => now - written.ids[p][g] > REPLACER_KEY_TTL

\* C5: after set_project_needs_final(p) a query of p returns needs_final
\* until the retention window has passed since the last set, and false
\* afterwards; a project with nothing written, or with everything expired,
\* reads as consistent: needs_final false and no excluded ids.
C5_NeedsFinalRetention ==
    IsQuery(ret) =>
        \A p \in Projects :
            Range(ret.project_ids) = {p} =>
                LET t == written.final[p]
                IN  /\ (t # NoKey /\ now - t < REPLACER_KEY_TTL) => ret.needs_final
                    /\ (t = NoKey \/ now - t > REPLACER_KEY_TTL) => ~ret.needs_final
                    /\ AllExpired(p) =>
                          (~ret.needs_final /\ ret.exclude_groups = <<>>)

\* C5 witness: the flag and an id of project 1 were written, the retention
\* window has passed since, and the query reads the project as consistent.
C5_Witness ==
    /\ IsQuery(ret)
    /\ ret.project_ids = <<1>>
    /\ written.final[1] # NoKey
    /\ written.ids[1][2] # NoKey
    /\ AllExpired(1)
    /\ ~ret.needs_final
    /\ ret.exclude_groups = <<>>

(* ============== properties of storage selection and sampling =========== *)

HasCondition(q, c) == \E i \in 1..Len(q.conditions) : q.conditions[i] = c

SamplingStep ==
    /\ Len(applied') = Len(applied) + 1
    /\ applied'[Len(applied')] = "SamplingRateProcessor"

\* C8 (as claimed): after SamplingRateProcessor.process_query, a query whose
\* data source does not support sampling has no sample, whatever the sample
\* before, the sampling mode and the turbo setting.
C8_NoSampleWithoutSupport ==
    [][SamplingStep =>
          (~query'.data_source.supports_sample => query'.sample = NoneSample)]_vars

\* what `no sample is already set` means once the sample of a data source
\* without sampling has been cleared
SampleAtCheck == IF query.data_source.supports_sample THEN query.sample ELSE NoneSample

\* a sample is set: it is not None and, unless zero counts as set, not 0
IsSet(sample, zero_is_set) == sample # NoneSample /\ (zero_is_set \/ sample # 0)

\* C9 and its amendment, for either reading of `a sample is set`
TurboOnlyWhenUnset(zero_is_set) ==
    SamplingStep =>
        /\ (query'.sample = TURBO_SAMPLE_RATE /\ query'.sample # SampleAtCheck)
              => /\ request_settings.mode = AUTO_DEPRECATED
                 /\ request_settings.turbo
                 /\ ~IsSet(SampleAtCheck, zero_is_set)
        /\ (query.data_source.supports_sample /\ IsSet(query.sample, zero_is_set))
              => query'.sample = query.sample
        /\ (/\ query.data_source.supports_sample
            /\ (request_settings.mode # AUTO_DEPRECATED \/ ~request_settings.turbo))
              => query'.sample = query.sample

C10_DataSourceStaysBound ==
    /\ [](applied # <<>> =>
             /\ query.data_source # NoDataSource
             /\ query.data_source.table = get_data_source(storage, FALSE).table)
    /\ [][query.data_source # NoDataSource => query'.data_source = query.data_source]_vars

\* C10 witness: all processors have run on a query bound to the
\* transactions table, which does not support sampling.
C10_Witness ==
    /\ applied = QueryProcessors
    /\ storage = "transactions"
    /\ query.data_source = [table |-> "test_transactions_local", supports_sample |-> FALSE]

(* ==================== properties of the translation ==================== *)

\* the last step asked a mapper of the given class alone
Attempted(class) == attempt.mapper # Absent /\ attempt.mapper.class = class

\* a column has an alias when it is there and not empty
HasAlias(e) == e.alias # None /\ e.alias # ""

\* the column name, behind "<table>." when the column names a table
TableQualifiedName(e) ==
    IF e.table_name = None \/ e.table_name = "" THEN e.column_name
    ELSE e.table_name \o "." \o e.column_name

\* C11: DefaultNoneColumnMapper.attempt_map answers a column of its column
\* set with the NULL literal whose alias is the column's alias when it has
\* one and the table-qualified column name otherwise, answers any other
\* column with None, and leaves the expression it was given as it was.
C11_ColumnToNull ==
    /\ [](Attempted("DefaultNoneColumnMapper") =>
            IF expression.column_name \in attempt.mapper.columns
            THEN /\ attempt.result.kind = "Literal"
                 /\ attempt.result.value = None
                 /\ attempt.result.alias =
                        IF HasAlias(expression) THEN expression.alias
                        ELSE TableQualifiedName(expression)
            ELSE attempt.result = Absent)
    /\ [][attempt' # attempt => expression' = expression]_vars

\* a column with an alias and a table was answered with NULL under its alias
C11_Witness ==
    /\ Attempted("DefaultNoneColumnMapper")
    /\ expression = Column("g", "t", "duration")
    /\ attempt.result = Literal("g", None)

NullLiteral == Literal(None, None)

\* ifNull(NULL, NULL) under the given alias: the collapsed form
CollapsedIfNull(alias) == FunctionCall(alias, "ifNull", <<NullLiteral, NullLiteral>>)

\* the chain holds a rule of the given class for function calls
HasFunctionRule(rules, class) ==
    \E i \in 1..Len(rules.functions) : rules.functions[i].class = class

\* NULL, or a two-argument ifNull call whose arguments are such expressions
RECURSIVE AllNullIfNull(_)
AllNullIfNull(e) ==
    \/ e.kind = "Literal" /\ e.value = None
    \/ /\ e.kind = "FunctionCall"
       /\ e.function_name = "ifNull"
       /\ Len(e.parameters) = 2
       /\ \A i \in 1..2 : AllNullIfNull(e.parameters[i])

\* C12: with the ifNull-collapse function mapper in the chain, an ifNull
\* call nested to any depth over NULL alone translates to ifNull(NULL, NULL)
\* under the alias of the outermost call, and a collapsed call translated
\* again is the same expression.
C12_CollapseIdempotent ==
    HasFunctionRule(mappers, "DefaultIfNullFunctionMapper") /\ translated.result # Absent =>
        /\ expression.kind = "FunctionCall" /\ AllNullIfNull(expression) =>
              translated.result = CollapsedIfNull(expression.alias)
        /\ /\ translated.result.kind = "FunctionCall"
           /\ translated.result = CollapsedIfNull(translated.result.alias)
           /\ translated.again # Absent
           => translated.again = translated.result

\* ifNull(ifNull(NULL, NULL), ifNull(NULL, NULL)) AS g was translated twice
C12_Witness ==
    /\ HasFunctionRule(mappers, "DefaultIfNullFunctionMapper")
    /\ expression = FunctionCall("g", "ifNull", <<CollapsedIfNull(None), CollapsedIfNull(None)>>)
    /\ translated.result = CollapsedIfNull("g")
    /\ translated.again = CollapsedIfNull("g")

\* the translated parameters of the call the last attempt_map was given
TranslatedParameters == TranslateAll(mappers, expression.parameters)

\* a literal whose value is NULL
IsNullLiteral(p) == p.kind = "Literal" /\ p.value = None

\* an ifNull call of exactly NULL and NULL
IsCollapsedIfNull(p) ==
    /\ p.kind = "FunctionCall"
    /\ p.function_name = "ifNull"
    /\ Len(p.parameters) = 2
    /\ \A i \in 1..2 : IsNullLiteral(p.parameters[i])

AllParametersNull(parameters) ==
    \A i \in 1..Len(parameters) :
        IsNullLiteral(parameters[i]) \/ IsCollapsedIfNull(parameters[i])

AttemptedIfNull ==
    \/ Attempted("DefaultIfNullFunctionMapper")
    \/ Attempted("DefaultIfNullCurriedFunctionMapper")

\* C13: the two ifNull-collapse mappers answer None when the call has no
\* parameters and when a translated parameter is anything but the NULL
\* literal or an ifNull(NULL, NULL) call: a literal that is not NULL, an
\* ifNull call over literals that are not NULL, any other expression.
C13_DeclineUnlessAllNull ==
    AttemptedIfNull /\ attempt.result # Raised =>
        (Len(expression.parameters) = 0 \/ ~AllParametersNull(TranslatedParameters)
            => attempt.result = Absent)

\* the mapper answered with a rewritten call
Rewrote == attempt.result \notin { Absent, Raised }

\* C14 (as stated): the ifNull-collapse function mapper rewrites a call only
\* when it is named ifNull and has exactly two arguments, and answers None
\* for any other name or number of arguments even when all arguments are
\* NULL.
C14_OnlyIfNullOfTwo ==
    Attempted("DefaultIfNullFunctionMapper") /\ Rewrote =>
        expression.function_name = "ifNull" /\ Len(expression.parameters) = 2

\* C14 (amended): the ifNull-collapse function mapper looks at neither the
\* name nor the number of arguments of the call: a call of any name with at
\* least one argument whose translated arguments are all NULL literals is
\* rewritten to ifNull(NULL, NULL) under the alias of the call, and a call
\* with no arguments is answered with None.
C14_AnyCallOverNullCollapses ==
    Attempted("DefaultIfNullFunctionMapper") /\ attempt.result # Raised =>
        /\ Len(expression.parameters) = 0 => attempt.result = Absent
        /\ /\ Len(expression.parameters) > 0
           /\ \A i \in 1..Len(expression.parameters) : IsNullLiteral(TranslatedParameters[i])
           => attempt.result = CollapsedIfNull(expression.alias)

\* f(NULL) AS g, one argument and not named ifNull, was collapsed
C14_Witness ==
    /\ Attempted("DefaultIfNullFunctionMapper")
    /\ expression = FunctionCall("g", "f", <<NullLiteral>>)
    /\ attempt.result = CollapsedIfNull("g")

\* the positions of the rules of the node's kind that answer the expression
Answering ==
    { i \in 1..Len(RulesFor(mappers, expression)) :
        attempt_map(RulesFor(mappers, expression)[i], mappers, expression) # Absent }

\* the chain holds the two column rules of transaction_translation_mappers:
\* the ColumnToLiteral rule for group_id and the Column-to-NULL rule for the
\* events columns, group_id among them
HoldsTransactionMappers(rules) ==
    /\ \E i \in 1..Len(rules.columns) :
          /\ rules.columns[i].class = "ColumnToLiteral"
          /\ rules.columns[i].from_col_name = "group_id"
    /\ \E j \in 1..Len(rules.columns) :
          /\ rules.columns[j].class = "DefaultNoneColumnMapper"
          /\ "group_id" \in rules.columns[j].columns

\* C15: concat keeps, for each kind of node, the rules of the left chain
\* followed by the rules of the right chain; a node is translated by the
\* first rule of that sequence that answers, or rebuilt when none does; so
\* in every chain that holds transaction_translation_mappers a reference to
\* group_id (as its ColumnToLiteral rule names it, without a table) becomes
\* the literal 0 of that rule and not the NULL of the rule behind it.
C15_FirstRuleWins ==
    /\ [](translated.result # Absent =>
            /\ IF Answering = {}
               THEN translated.result = Rebuild(mappers, expression)
               ELSE \E i \in Answering :
                      /\ \A j \in Answering : i <= j
                      /\ translated.result =
                            attempt_map(RulesFor(mappers, expression)[i], mappers, expression)
            /\ /\ HoldsTransactionMappers(mappers)
               /\ expression.kind = "Column"
               /\ expression.column_name = "group_id"
               /\ expression.table_name = None
               => translated.result = Literal(expression.alias, "0"))
    /\ [][mappers' # mappers =>
            \E c \in ConcatCalls :
                /\ c[1] = mappers
                /\ mappers'.columns = mappers.columns \o c[2].columns
                /\ mappers'.functions = mappers.functions \o c[2].functions
                /\ mappers'.curried_functions =
                      mappers.curried_functions \o c[2].curried_functions
                /\ mappers'.subscriptables =
                      mappers.subscriptables \o c[2].subscriptables]_vars

\* group_id AS g was translated with the mappers of DiscoverEntity, where
\* three column rules stand before the Column-to-NULL rule that lists it
C15_Witness ==
    /\ mappers = DiscoverEntityMappers
    /\ expression = Column("g", None, "group_id")
    /\ translated.result = Literal("g", "0")

\* an expression tree: a node of one of the five kinds over expression trees
RECURSIVE WellFormed(_)
WellFormed(e) ==
    CASE e.kind \in { "Column", "Literal" } -> TRUE
      [] e.kind = "FunctionCall" ->
            \A i \in 1..Len(e.parameters) : WellFormed(e.parameters[i])
      [] e.kind = "CurriedFunctionCall" ->
            /\ e.internal_function.kind = "FunctionCall"
            /\ WellFormed(e.internal_function)
            /\ \A i \in 1..Len(e.parameters) : WellFormed(e.parameters[i])
      [] e.kind = "SubscriptableReference" -> WellFormed(e.column) /\ WellFormed(e.key)
      [] OTHER -> FALSE

\* the result is the expression with its children replaced by their
\* translations
RebuiltFromChildren(e, result) ==
    /\ result.kind = e.kind
    /\ result.alias = e.alias
    /\ CASE e.kind = "FunctionCall" ->
              /\ result.function_name = e.function_name
              /\ result.parameters = TranslateAll(mappers, e.parameters)
         [] e.kind = "CurriedFunctionCall" ->
              /\ result.internal_function = Translate(mappers, e.internal_function)
              /\ result.parameters = TranslateAll(mappers, e.parameters)
         [] e.kind = "SubscriptableReference" ->
              /\ result.column = Translate(mappers, e.column)
              /\ result.key = Translate(mappers, e.key)
         [] OTHER -> result = e

\* C16: translation is total: with every chain the entities build, every
\* expression tree translates to an expression tree; a mapper asked alone
\* answers with an expression or with None and never raises; a node that no
\* rule claims is rebuilt from its translated children.
C16_TranslationTotal ==
    /\ attempt.mapper # Absent =>
          attempt.result = Absent \/ WellFormed(attempt.result)
    /\ translated.result # Absent =>
          /\ WellFormed(translated.result)
          /\ Answering = {} => RebuiltFromChildren(expression, translated.result)
    /\ translated.again # Absent => WellFormed(translated.again)

\* apdex(5)(NULL) AS g: the inner call is claimed by the function-to-NULL
\* rule, the curried-call rule takes its answer for a function call
C16_Witness ==
    /\ expression = CurriedFunctionCall("g", FunctionCall(None, "apdex", <<Literal(None, "5")>>),
                                        <<NullLiteral>>)
    /\ HasFunctionRule(mappers, "DefaultIfNullFunctionMapper")
    /\ translated.result.kind = "CurriedFunctionCall"
    /\ translated.result.internal_function.function_name = "identityOrNull"

\* C20: DefaultIfNullCurriedFunctionMapper.attempt_map, given a curried call
\* with at least one parameter whose translated parameters are all NULL
\* literals or ifNull(NULL, NULL) calls, answers with a curried call under
\* the same alias whose inner function is the translated inner function
\* renamed <name>OrNull over its translated parameters and whose outer
\* parameters are as many NULL literals as the call had parameters.
C20_CurriedCollapse ==
    /\ Attempted("DefaultIfNullCurriedFunctionMapper")
    /\ Len(expression.parameters) > 0
    /\ AllParametersNull(TranslatedParameters)
    => LET internal_function == Translate(mappers, expression.internal_function)
       IN  /\ attempt.result.kind = "CurriedFunctionCall"
           /\ attempt.result.alias = expression.alias
           /\ attempt.result.internal_function.kind = "FunctionCall"
           /\ attempt.result.internal_function.function_name =
                  internal_function.function_name \o "OrNull"
           /\ attempt.result.internal_function.parameters = internal_function.parameters
           /\ Len(attempt.result.parameters) = Len(expression.parameters)
           /\ \A i \in 1..Len(attempt.result.parameters) :
                  attempt.result.parameters[i] = NullLiteral

\* f(duration)(NULL, ifNull(NULL, NULL)) AS g with the events mappers: the
\* inner call translates to ifNull(NULL, NULL) and is renamed ifNullOrNull
C20_Witness ==
    /\ Attempted("DefaultIfNullCurriedFunctionMapper")
    /\ expression =
          CurriedFunctionCall("g", FunctionCall(None, "f", <<Column(None, None, "duration")>>),
                              <<NullLiteral, CollapsedIfNull(None)>>)
    /\ attempt.result =
          CurriedFunctionCall("g", FunctionCall(None, "ifNullOrNull", <<NullLiteral, NullLiteral>>),
                              <<NullLiteral, NullLiteral>>)

(* ================= the retention boundary and concurrency ============== *)

\* the ids recorded for the projects at a time t with now - t <= window
RecordedWithin(ps, window) ==
    { g \in GroupIds : \E p \in ps : /\ written.ids[p][g] # NoKey
                                     /\ now - written.ids[p][g] <= window }

\* C19: an excluded id recorded at t is pruned, and left out of what
\* get_projects_query_flags returns, only once now - t > TTL: the ids
\* returned are exactly those with now - t <= TTL, the ones with
\* now - t = TTL among them.
C19_LiveAtExactlyTTL ==
    IsQuery(ret) =>
        Range(ret.exclude_groups) = RecordedWithin(Range(ret.project_ids), REPLACER_KEY_TTL)

\* no call is between its clock reading and the execution of its pipeline
AllCompleted == \A w \in Workers : callers[w].pc # "execute"

Completed(w, op) == callers[w].pc = "done" /\ callers[w].op = op

\* the flag of every project whose needs-final was set less than the window
\* ago is set
FlagsOfCallersSet ==
    \A w \in Workers :
        Completed(w, "set_project_needs_final") /\ now - callers[w].now < REPLACER_KEY_TTL
            => FlagSet(redis, callers[w].project_id, now)

\* the step that completes a call leaves every other project as it was
OtherProjectsUntouched ==
    \A w \in Workers :
        callers[w].pc # "done" /\ callers'[w].pc = "done" =>
            \A q \in Projects \ { callers'[w].project_id } :
                /\ redis'.zsets[q] = redis.zsets[q]
                /\ redis'.zexpire[q] = redis.zexpire[q]
                /\ redis'.flag[q] = redis.flag[q]

\* C17 (as stated): whatever the interleaving of the calls of several
\* workers, once all calls have completed every id written by a call within
\* the retention window is a live id of its project, every project whose
\* needs-final was set has its flag set, and no call changes another
\* project.
C17_EveryWriteLive ==
    /\ [](AllCompleted =>
            /\ \A w \in Workers :
                  /\ Completed(w, "set_project_exclude_groups")
                  /\ now - callers[w].now < REPLACER_KEY_TTL
                  => callers[w].group_ids \subseteq LiveIds(redis, callers[w].project_id, now)
            /\ FlagsOfCallersSet)
    /\ [][OtherProjectsUntouched]_vars

\* C17 (amended): whatever the interleaving, once all calls have completed
\* every id is a live id of its project for as long as the timestamp of the
\* call that wrote it last (the last pipeline executed, which may carry an
\* earlier clock reading than a call executed before it) is within the
\* retention window, every project whose needs-final was set has its flag
\* set, and no call changes another project.
C17_LastWriteLive ==
    /\ [](AllCompleted =>
            /\ \A p \in Projects, g \in GroupIds :
                  /\ written.ids[p][g] # NoKey
                  /\ now - written.ids[p][g] < REPLACER_KEY_TTL
                  => g \in LiveIds(redis, p, now)
            /\ FlagsOfCallersSet)
    /\ [][OtherProjectsUntouched]_vars

\* two workers wrote id 2 of project 1; the one that read the clock first
\* executed last, and the id is live under the earlier timestamp
C17_Witness ==
    /\ AllCompleted
    /\ \A w \in Workers : /\ Completed(w, "set_project_exclude_groups")
                          /\ callers[w].project_id = 1
                          /\ 2 \in callers[w].group_ids
    /\ callers["w1"].now = 0
    /\ callers["w2"].now = 1
    /\ written.ids[1][2] = 0
    /\ now = 1
    /\ 2 \in LiveIds(redis, 1, now)

\* C18: the calls of the worker and of the readers (process_message, the
\* steps of flush_batch with their set_project_exclude_groups and
\* set_project_needs_final calls, get_projects_query_flags) only add to the
\* consistency state: none of them takes a live excluded id out of the live
\* set or clears a flag that has not expired; ids and flags leave the live
\* state only when the clock moves.
C18_OnlyGainsCorrections ==
    [][now' = now =>
          \A p \in Projects :
              /\ LiveIds(redis, p, now) \subseteq LiveIds(redis', p, now')
              /\ FlagSet(redis, p, now) => FlagSet(redis', p, now')]_vars

\* in the middle of a later flush a reader still gets the flag set at time 0
\* and the ids recorded again at time 1
C18_Witness ==
    /\ now = 1
    /\ pc # "idle"
    /\ written.final[1] = 0
    /\ written.ids[2][2] = 1
    /\ IsQuery(ret)
    /\ ret.needs_final
    /\ ret.exclude_groups = <<2, 10>>

(* ------------------------ flush_batch, failing -------------------------- *)

IsRaiseKind(k) == k \in { "count_raised", "insert_raised" }

\* the step in which a count query or an insert query raises
RaiseStep ==
    /\ Len(events') = Len(events) + 1
    /\ IsRaiseKind(events'[Len(events')].kind)

\* the events of unit j, in the order they happened
EventsOf(j) == SelectSeq(events, LAMBDA e : e.unit = j)

KindsOf(j) == [i \in 1..Len(EventsOf(j)) |-> EventsOf(j)[i].kind]

\* unit j was handled to its end: skipped on a zero count, or counted,
\* recorded in the state store and inserted
HandledToEnd(j) ==
    \/ /\ KindsOf(j) = <<"count">>
       /\ EventsOf(j)[1].count = 0
    \/ /\ KindsOf(j) = <<"count", FlagKindOf(batch[j]), "insert">>
       /\ EventsOf(j)[1].count # 0

\* unit k is the one whose query raised: its count query, or its insert
\* query after its consistency update
RaisedIn(k) ==
    \/ KindsOf(k) = <<"count_raised">>
    \/ /\ KindsOf(k) = <<"count", FlagKindOf(batch[k]), "insert_raised">>
       /\ EventsOf(k)[1].count # 0

\* the consistency update of unit u is in the state store and a reader
\* sees it for as long as the retention window of the write lasts
StaysApplied(u) ==
    IF u.flag_type = NEEDS_FINAL
    THEN /\ written.final[u.project_id] # NoKey
         /\ redis.flag[u.project_id] # NoKey
         /\ now - written.final[u.project_id] < REPLACER_KEY_TTL
               => FlagSet(redis, u.project_id, now)
    ELSE \A g \in u.group_ids :
            /\ written.ids[u.project_id][g] # NoKey
            /\ now - written.ids[u.project_id][g] < REPLACER_KEY_TTL
                  => g \in LiveIds(redis, u.project_id, now)

\* the units whose consistency update flush_batch has made so far
Updated == { j \in 1..Len(batch) : \E i \in 1..Len(events) :
                /\ events[i].unit = j
                /\ IsFlagKind(events[i].kind) }

\* C21: flush_batch performs no rollback.  When the count query or the insert
\* query of unit k raises, every unit before k has been handled to its end,
\* the consistency updates made so far (those of the units before k, and that
\* of unit k when it is the insert that raised) stay in the state store, no
\* unit after k has any query or update, the step that raises and the steps
\* that follow it leave the state store as it is, and flush_batch ends with
\* the error at its caller, never with a further step of the loop.
C21_NoRollback ==
    /\ [](pc = "raised" =>
             /\ idx \in 1..Len(batch)
             /\ RaisedIn(idx)
             /\ IsRaiseKind(events[Len(events)].kind)
             /\ \A j \in 1..(idx - 1) : HandledToEnd(j)
             /\ \A j \in (idx + 1)..Len(batch) : EventsOf(j) = <<>>
             /\ \A j \in Updated : StaysApplied(batch[j]))
    /\ [][RaiseStep =>
             /\ redis' = redis
             /\ written' = written
             /\ pc' = "raised"]_vars
    /\ [][pc = "raised" =>
             /\ redis' = redis
             /\ written' = written
             /\ pc' \in { "raised", "idle" }
             /\ pc' = "raised" => events' = events
             /\ pc' = "idle" => outcome' = FlushRaised]_vars

\* C21 witness: in a batch of two units the first was counted, recorded and
\* inserted, the second was counted and recorded, and its insert query
\* raised: both consistency updates are in the state store.
C21_Witness ==
    /\ pc = "raised"
    /\ Len(batch) = 2
    /\ idx = 2
    /\ batch[1].flag_type = NEEDS_FINAL
    /\ batch[2].flag_type = EXCLUDE_GROUPS
    /\ HandledToEnd(1)
    /\ KindsOf(2) = <<"count", "set_project_exclude_groups", "insert_raised">>
    /\ FlagSet(redis, batch[1].project_id, now)
    /\ batch[2].group_ids # {}
    /\ batch[2].group_ids \subseteq LiveIds(redis, batch[2].project_id, now)

====
